---- MODULE Spec2Model ----
(***************************************************************************)
(* Model of mozdefevents (main.go): a command line client that builds an   *)
(* Elasticsearch query, walks the daily events-YYYYMMDD indices of a date  *)
(* range page by page, normalizes the documents and prints one line per    *)
(* event.                                                                  *)
(*                                                                         *)
(* Times are whole hours since 2015-01-01T00:00:00Z (UTC).  Strings are    *)
(* TLA+ strings; a formatted string is the sequence of its pieces; the     *)
(* summary, which is trimmed, is a sequence of characters.                 *)
(***************************************************************************)
EXTENDS Integers, Sequences, FiniteSets, TLC

\* ------------------------------------------------------------------ bounds
\* last day offered on the command line, counted from 2015-12-30
MaxSpan == 2
\* non-empty pages the backend serves during one run
MaxPages == 3
\* size of a page that is not full
ShortPage == 37
\* longest raw summary
MaxSummaryLen == 3

\* --------------------------------------------------------------- constants
docsPerSearch == 100

HoursPerDay == 24

\* ---------------------------------------------------------------- calendar
IsLeap(y) == (y % 4 = 0 /\ y % 100 # 0) \/ y % 400 = 0

DaysInYear(y) == IF IsLeap(y) THEN 366 ELSE 365

DaysIn(y, m) ==
    IF m = 2 THEN (IF IsLeap(y) THEN 29 ELSE 28)
    ELSE IF m \in {4, 6, 9, 11} THEN 30 ELSE 31

RECURSIVE DaysBeforeYear(_)
DaysBeforeYear(y) ==
    IF y <= 2015 THEN 0 ELSE DaysInYear(y - 1) + DaysBeforeYear(y - 1)

RECURSIVE DaysBeforeMonth(_, _)
DaysBeforeMonth(y, m) ==
    IF m <= 1 THEN 0 ELSE DaysIn(y, m - 1) + DaysBeforeMonth(y, m - 1)

\* A date argument is the tuple of the numbers the layout
\* "2006-01-02 15:04:05" splits it into, <<year, month, day, hour>>; the
\* empty string is <<>> and a text the layout does not match is a tuple of
\* another length.  time.Parse rejects a month or a day out of range.
ParseOk(s) ==
    /\ Len(s) = 4
    /\ s[2] \in 1..12
    /\ s[3] \in 1..DaysIn(s[1], s[2])
    /\ s[4] \in 0..23

Parse(s) ==
    (DaysBeforeYear(s[1]) + DaysBeforeMonth(s[1], s[2]) + (s[3] - 1))
        * HoursPerDay + s[4]

\* the calendar date of a time, as Time.Format computes it
RECURSIVE YearOf(_, _)
YearOf(y, days) ==
    IF days < DaysInYear(y) THEN <<y, days>>
    ELSE YearOf(y + 1, days - DaysInYear(y))

RECURSIVE MonthOf(_, _, _)
MonthOf(y, m, days) ==
    IF days < DaysIn(y, m) THEN <<m, days + 1>>
    ELSE MonthOf(y, m + 1, days - DaysIn(y, m))

DayOf(t) == t \div HoursPerDay

Civil(t) ==
    LET yd == YearOf(2015, DayOf(t))
        md == MonthOf(yd[1], 1, yd[2])
    IN  [y |-> yd[1], m |-> md[1], d |-> md[2], h |-> t % HoursPerDay]

\* dp.Format("20060102"): the eight digits YYYYMMDD
Format20060102(t) ==
    LET c == Civil(t) IN c.y * 10000 + c.m * 100 + c.d

\* t.Format(time.RFC3339)
FormatRFC3339(t) == <<"RFC3339", Civil(t)>>

\* fmt.Sprintf("events-%v", t.Format("20060102"))
IndexName(t) == <<"events-", Format20060102(t)>>

\* ------------------------------------------------------------------- query
NoQuery ==
    [From |-> 0, Size |-> 0, Sort |-> <<>>, Must |-> <<>>, Should |-> <<>>,
     MinShouldMatch |-> 0]

HostFields == <<"hostname", "details.dhost", "details.hostname">>

\* fmt.Sprintf("<field>: /%v/", cfg.hostmatch)
QueryString(field, hm) == [QueryString |-> <<field, ": /", hm, "/">>]

\* shouldClauses without the details.hostname clause
shouldClausesTwo(hm) ==
    IF hm # "" THEN [i \in 1..2 |-> QueryString(HostFields[i], hm)] ELSE <<>>

shouldClauses(hm) ==
    IF hm # "" THEN [i \in 1..Len(HostFields) |-> QueryString(HostFields[i], hm)]
    ELSE <<>>

defaultSettings(q, sd, ed, hm) ==
    [q EXCEPT !.From = 0,
              !.Size = docsPerSearch,
              !.Sort = <<"utctimestamp", "asc">>,
              !.MinShouldMatch = 1,
              !.Must = Append(@, [Range |-> [field |-> "utctimestamp",
                                             gte |-> FormatRFC3339(sd),
                                             lte |-> FormatRFC3339(ed)]]),
              !.Should = @ \o shouldClauses(hm)]

addMatch(q, key, val) ==
    [q EXCEPT !.Must = Append(@, [Match |-> <<key, val>>])]

buildAuditSearch(sd, ed, hm) ==
    addMatch(defaultSettings(NoQuery, sd, ed, hm), "_type", "auditd")

buildSyslogSearch(sd, ed, hm) ==
    addMatch(addMatch(defaultSettings(NoQuery, sd, ed, hm), "_type", "event"),
             "category", "syslog")

\* ------------------------------------------------------------------ events
Cutset == {" ", "\n"}

\* TrimLeft that removes one character only
TrimLeftOnce(s) == IF s # <<>> /\ Head(s) \in Cutset THEN Tail(s) ELSE s

RECURSIVE TrimLeft(_)
TrimLeft(s) ==
    IF s # <<>> /\ Head(s) \in Cutset THEN TrimLeft(Tail(s)) ELSE s

RECURSIVE TrimRight(_)
TrimRight(s) ==
    IF s # <<>> /\ s[Len(s)] \in Cutset
    THEN TrimRight(SubSeq(s, 1, Len(s) - 1)) ELSE s

\* strings.Trim(s, " \n")
Trim(s) == TrimRight(TrimLeft(s))

Fallback(canonical, alias) ==
    IF canonical = "" /\ alias # "" THEN alias ELSE canonical

\* normUser falling back to the source user
normUserFromSUser(d) == Fallback(d.User, d.SUser)

normUser(d) == Fallback(d.User, d.DUser)

normOriginalUser(d) == Fallback(d.OriginalUser, d.SUser)

normalize(e) ==
    [e EXCEPT !.Hostname = Fallback(e.Hostname, e.Details.DHost),
              !.Details.User = normUser(e.Details),
              !.Details.Path = Fallback(e.Details.Path, e.Details.Fname),
              !.Details.OriginalUser = normOriginalUser(e.Details),
              !.Details.ProcessName =
                  Fallback(e.Details.ProcessName, e.Details.DProc),
              !.Category = IF e.Details.Name = "Unix Exec" THEN "execve" ELSE @,
              !.Summary = Trim(e.Summary)]

\* fmt's %q of a string
Quoted(s) == <<"\"", s, "\"">>

hasProc(x) == x.Details.DProc # ""

execveDescriptor(x) ==
    <<"[execve]">>
    \o << <<" (", IF x.Details.OriginalUser # "" THEN x.Details.OriginalUser
                  ELSE "none", "/", x.Details.User, ")">> >>
    \o (IF x.Details.Command # ""
        THEN << <<" command:", Quoted(x.Details.Command)>> >> ELSE <<>>)
    \o (IF hasProc(x)
        THEN << <<" proc:", Quoted(x.Details.ProcessName)>> >> ELSE <<>>)
    \o (IF x.Details.Path # ""
        THEN << <<" path:", Quoted(x.Details.Path)>> >> ELSE <<>>)

auditLine(x) ==
    [ts |-> x.Timestamp, host |-> x.Hostname,
     evstr |-> IF x.Category = "execve" THEN execveDescriptor(x)
               ELSE <<"unknown audit event">>]

syslogLine(x) ==
    [ts |-> x.Timestamp, host |-> x.Details.Hostname,
     evstr |-> IF x.Summary # <<>> THEN <<"[syslog] ", x.Summary>>
               ELSE <<"[syslog] unknown syslog event">>]

auditResults(res) == [i \in 1..Len(res) |-> auditLine(res[i])]

syslogResults(res) == [i \in 1..Len(res) |-> syslogLine(res[i])]

\* the event a document decodes to when it sets no field
NoEvent ==
    [Category |-> "", Hostname |-> "", Timestamp |-> 0, UTCTimestamp |-> 0,
     Summary |-> <<>>,
     Details |-> [Hostname |-> "", Command |-> "", DHost |-> "", DProc |-> "",
                  DUser |-> "", SUser |-> "", Fname |-> "", Name |-> "",
                  ProcessName |-> "", OriginalUser |-> "", User |-> "",
                  Path |-> ""]]

\* ------------------------------------------------------- index enumeration
gapShort(ed, dp) == ed - dp < HoursPerDay

found(indices, idx) == \E i \in 1..Len(indices) : indices[i] = idx

\* lastIndex without the search for the name
lastIndexAlways(indices, idx) == Append(indices, idx)

lastIndex(indices, idx) ==
    IF found(indices, idx) THEN indices ELSE Append(indices, idx)

RECURSIVE enumerate(_, _, _)
enumerate(dp, ed, indices) ==
    LET ind == Append(indices, IndexName(dp))
    IN  IF gapShort(ed, dp) THEN lastIndex(ind, IndexName(ed))
        ELSE enumerate(dp + HoursPerDay, ed, ind)

\* ------------------------------------------------------------------ inputs
FirstDay == <<2015, 12, 30>>

\* the days FirstDay .. FirstDay + MaxSpan, as the user types them
ArgDays ==
    {LET c == Civil(Parse(FirstDay \o <<0>>) + k * HoursPerDay)
     IN  <<c.y, c.m, c.d>> : k \in 0..MaxSpan}

ArgHours == {0, 12}

\* well-formed dates, a day out of range, a text that is no date, nothing
DateArgs ==
    {d \o <<h>> : d \in ArgDays, h \in ArgHours}
        \cup {<<2015, 12, 32, 0>>, <<0>>, <<>>}

HostArgs == {"", "web.*"}

EnvHosts == {"", "es1:9200"}

\* the dates tried with every combination of the flags
FewDates ==
    {FirstDay \o <<h>> : h \in ArgHours} \cup {<<2015, 12, 32, 0>>, <<0>>, <<>>}

\* command lines: every date pair with -a -H, every flag with a few dates
Args ==
    {x \in [a : BOOLEAN, s : BOOLEAN, n : BOOLEAN, b : DateArgs, e : DateArgs,
            H : HostArgs] :
        \/ x.a /\ ~x.s /\ ~x.n /\ x.H # ""
        \/ x.b \in FewDates /\ x.e \in FewDates}

\* time.Now().UTC() when the end date is left out: the morning after FirstDay
Clock == {Parse(FirstDay \o <<6>>) + HoursPerDay}

\* documents the backend holds
AuditDoc ==
    [NoEvent EXCEPT !.Summary = <<" ", "x", "\n">>,
                    !.Details.DHost = "web1",
                    !.Details.Name = "Unix Exec",
                    !.Details.Command = "ls -la",
                    !.Details.DUser = "root",
                    !.Details.SUser = "alice",
                    !.Details.DProc = "ls",
                    !.Details.Fname = "/bin/ls"]

SyslogDoc ==
    [NoEvent EXCEPT !.Category = "syslog",
                    !.Hostname = "db1",
                    !.Summary = <<"s">>,
                    !.Details.Hostname = "db1"]

\* the k-th hit of a page
Hit(k) == IF k % 2 = 1 THEN AuditDoc ELSE SyslogDoc

PageSizes == {0, ShortPage, docsPerSearch}

NoErr == "nil"

SearchErr == "search: connection refused"

DecodeErr == "json: cannot unmarshal"

\* raw documents for the normalizer and the renderer taken alone
Chars == {" ", "\n", "s"}

Summaries == UNION {[1..k -> Chars] : k \in 0..MaxSummaryLen}

DetailInputs ==
    [Hostname : {"", "h2"}, Command : {"", "ls -la"}, DHost : {"", "web1"},
     DProc : {"", "ls"}, DUser : {"", "root"}, SUser : {"", "alice"},
     Fname : {"", "/bin/ls"}, Name : {"", "Unix Exec"},
     ProcessName : {"", "bash"}, OriginalUser : {"", "bob"},
     User : {"", "carol"}, Path : {"", "/usr/bin"}]

FieldDocs ==
    [Category : {"", "execve", "syslog"}, Hostname : {"", "h1"},
     Timestamp : {0}, UTCTimestamp : {0}, Summary : {<<>>, <<" ", "s", "\n">>},
     Details : DetailInputs]

SummaryDocs ==
    {[d EXCEPT !.Summary = t] : d \in {NoEvent, AuditDoc, SyslogDoc},
                                t \in Summaries}

EventInputs == FieldDocs \cup SummaryDocs

\* ------------------------------------------------------------------- state
VARIABLES
    env,        \* MOZDEFESHOST
    args,       \* the command line
    pc,         \* where the program is
    eshost, startDate, endDate, hostmatch, results,     \* cfg
    qry,        \* main's query
    doctype,    \* the document type main passes to runQuery
    indices,    \* runQuery's index names
    ix,         \* runQuery's position in indices
    conns,      \* connections that are open
    qfrom,      \* qry.From of runQueryIndex's copy of the query
    ierr,       \* what runQueryIndex returns
    err,        \* what runQuery returns to main
    requests,   \* the searches the backend has received, in order
    stdout, stderr, exitCode,
    raw, once, ev, line     \* a document through normalize and one printed line

vars == <<env, args, pc, eshost, startDate, endDate, hostmatch, results, qry,
          doctype, indices, ix, conns, qfrom, ierr, err, requests, stdout,
          stderr, exitCode, raw, once, ev, line>>

cfgVars == <<eshost, startDate, endDate, hostmatch, results>>

queryVars == <<indices, ix, conns, qfrom, ierr, err, requests>>

eventVars == <<raw, once, ev, line>>

Idle ==
    /\ eshost = "" /\ startDate = 0 /\ endDate = 0 /\ hostmatch = ""
    /\ results = <<>> /\ qry = NoQuery /\ doctype = "" /\ indices = <<>>
    /\ ix = 0 /\ conns = {} /\ qfrom = 0 /\ ierr = NoErr /\ err = NoErr
    /\ requests = <<>> /\ stdout = <<>> /\ stderr = <<>> /\ exitCode = -1

Init ==
    /\ env \in EnvHosts
    /\ args \in Args
    /\ pc = "main"
    /\ Idle
    /\ raw = NoEvent /\ once = NoEvent /\ ev = NoEvent /\ line = <<>>

\* -------------------------------------------------------------------- main
Fail(msg) ==
    /\ stderr' = Append(stderr, <<"error: ", msg>>)
    /\ exitCode' = 1
    /\ pc' = "exit"

getESHost ==
    /\ pc = "main"
    /\ eshost' = env
    /\ IF env = ""
       THEN Fail("MOZDEFESHOST environment variable not set")
       ELSE pc' = "flags" /\ UNCHANGED <<stderr, exitCode>>
    /\ UNCHANGED <<env, args, startDate, endDate, hostmatch, results, qry,
                   doctype, queryVars, stdout, eventVars>>

\* flag.Parse, the mode check, parseDates and cfg.hostmatch
parseDates ==
    /\ pc = "flags"
    /\ IF ~args.a /\ ~args.s
       THEN /\ Fail("must specify -a or -s")
            /\ UNCHANGED <<startDate, endDate, hostmatch>>
       ELSE IF ~ParseOk(args.b)
       THEN /\ Fail("parsing time")
            /\ UNCHANGED <<startDate, endDate, hostmatch>>
       ELSE IF Len(args.e) = 0
       THEN /\ startDate' = Parse(args.b)
            /\ endDate' \in Clock
            /\ hostmatch' = args.H
            /\ pc' = "build"
            /\ UNCHANGED <<stderr, exitCode>>
       ELSE IF ~ParseOk(args.e)
       THEN /\ startDate' = Parse(args.b)
            /\ Fail("parsing time")
            /\ UNCHANGED <<endDate, hostmatch>>
       ELSE /\ startDate' = Parse(args.b)
            /\ endDate' = Parse(args.e)
            /\ hostmatch' = args.H
            /\ pc' = "build"
            /\ UNCHANGED <<stderr, exitCode>>
    /\ UNCHANGED <<env, args, eshost, results, qry, doctype, queryVars, stdout,
                   eventVars>>

\* buildAuditSearch / buildSyslogSearch and the -n exit
buildSearch ==
    /\ pc = "build"
    /\ qry' = IF args.a THEN buildAuditSearch(startDate, endDate, hostmatch)
              ELSE buildSyslogSearch(startDate, endDate, hostmatch)
    /\ doctype' = IF args.a THEN "auditd" ELSE "event"
    /\ IF args.n
       THEN /\ stdout' = Append(stdout, [json |-> qry'])
            /\ exitCode' = 0
            /\ pc' = "exit"
       ELSE /\ pc' = "runQuery"
            /\ UNCHANGED <<stdout, exitCode>>
    /\ UNCHANGED <<env, args, cfgVars, queryVars, stderr, eventVars>>

\* ---------------------------------------------------------------- runQuery
enumerateIndices ==
    /\ pc = "runQuery"
    /\ indices' = enumerate(startDate, endDate, <<>>)
    /\ ix' = 1
    /\ pc' = "loop"
    /\ UNCHANGED <<env, args, cfgVars, qry, doctype, conns, qfrom, ierr, err,
                   requests, stdout, stderr, exitCode, eventVars>>

\* qry.From = 0 on the copy of the query runQueryIndex was passed
entryFrom(prev) == 0

\* the range loop calls runQueryIndex, which opens its connection
runQueryIndex ==
    /\ pc = "loop"
    /\ ix <= Len(indices)
    /\ conns' = conns \cup {ix}
    /\ qfrom' = entryFrom(qfrom)
    /\ pc' = "search"
    /\ UNCHANGED <<env, args, cfgVars, qry, doctype, indices, ix, ierr, err,
                   requests, stdout, stderr, exitCode, eventVars>>

\* the range loop is over: return nil
runQueryDone ==
    /\ pc = "loop"
    /\ ix > Len(indices)
    /\ err' = NoErr
    /\ pc' = "returned"
    /\ UNCHANGED <<env, args, cfgVars, qry, doctype, indices, ix, conns, qfrom,
                   ierr, requests, stdout, stderr, exitCode, eventVars>>

\* pageEnds that takes a page that is not full for the last one
pageEndsShort(n) == n < docsPerSearch

pageEnds(n) == n = 0

nextFrom(from) == from + docsPerSearch

pagesServed == Cardinality({i \in 1..Len(requests) : requests[i].hits > 0})

request(n, e) ==
    [index |-> indices[ix], doctype |-> doctype, from |-> qfrom, size |-> qry.Size,
     hits |-> n, failed |-> e]

\* json.Unmarshal and normalize of the hits of a full page
Decoded == [k \in 1..docsPerSearch |-> normalize(Hit(k))]

decoded(n) == SubSeq(Decoded, 1, n)

\* one pass of the loop of runQueryIndex: a search and what it returned
searchFails ==
    /\ pc = "search"
    /\ requests' = Append(requests, request(0, SearchErr))
    /\ ierr' = SearchErr
    /\ pc' = "return"
    /\ UNCHANGED <<env, args, cfgVars, qry, doctype, indices, ix, conns, qfrom,
                   err, stdout, stderr, exitCode, eventVars>>

\* a page of n hits, of which the last one may not decode
searchPage ==
    /\ pc = "search"
    /\ \E n \in PageSizes : \E bad \in {0, n} :
        /\ n > 0 => pagesServed < MaxPages
        /\ bad <= n
        /\ IF pageEnds(n)
           THEN /\ requests' = Append(requests, request(n, NoErr))
                /\ ierr' = NoErr
                /\ pc' = "return"
                /\ UNCHANGED <<results, qfrom>>
           ELSE IF bad # 0
           THEN /\ requests' = Append(requests, request(n, DecodeErr))
                /\ results' = results \o decoded(bad - 1)
                /\ ierr' = DecodeErr
                /\ pc' = "return"
                /\ UNCHANGED qfrom
           ELSE /\ requests' = Append(requests, request(n, NoErr))
                /\ results' = results \o decoded(n)
                /\ qfrom' = nextFrom(qfrom)
                /\ pc' = "search"
                /\ UNCHANGED ierr
    /\ UNCHANGED <<env, args, eshost, startDate, endDate, hostmatch, qry,
                   doctype, indices, ix, conns, err, stdout, stderr, exitCode,
                   eventVars>>

\* deferClose that leaves the connection open
closeNever(cs, c) == cs

\* defer conn.Close()
deferClose(cs, c) == cs \ {c}

\* abortOnErr that goes on to the next index
abortNever(e) == FALSE

\* if err != nil { return err }
abortOnErr(e) == e # NoErr

\* runQueryIndex returns: the deferred Close runs, runQuery tests the error
returnIndex ==
    /\ pc = "return"
    /\ conns' = deferClose(conns, ix)
    /\ IF abortOnErr(ierr)
       THEN err' = ierr /\ pc' = "returned" /\ UNCHANGED ix
       ELSE ix' = ix + 1 /\ pc' = "loop" /\ UNCHANGED err
    /\ UNCHANGED <<env, args, cfgVars, qry, doctype, indices, qfrom, ierr,
                   requests, stdout, stderr, exitCode, eventVars>>

\* mainFails that ignores the error
mainFailsNever(e) == FALSE

mainFails(e) == e # NoErr

\* main: runQuery returned an error
mainError ==
    /\ pc = "returned"
    /\ mainFails(err)
    /\ Fail(err)
    /\ UNCHANGED <<env, args, cfgVars, qry, doctype, queryVars, stdout,
                   eventVars>>

\* main: auditResults() / syslogResults()
printResults ==
    /\ pc = "returned"
    /\ ~mainFails(err)
    /\ stdout' = stdout \o (IF args.a THEN auditResults(results)
                             ELSE syslogResults(results))
    /\ exitCode' = 0
    /\ pc' = "exit"
    /\ UNCHANGED <<env, args, cfgVars, qry, doctype, queryVars, stderr,
                   eventVars>>

Next ==
    \/ getESHost
    \/ parseDates
    \/ buildSearch
    \/ enumerateIndices
    \/ runQueryIndex
    \/ runQueryDone
    \/ searchFails
    \/ searchPage
    \/ returnIndex
    \/ mainError
    \/ printResults

Spec == Init /\ [][Next]_vars

\* ------------------------------------------- the index enumeration by itself
\* runQuery entered with any two hours of the days on offer
EnumDates == {d \o <<h>> : d \in ArgDays, h \in 0..23}

InitEnum ==
    /\ env = "es1:9200"
    /\ args \in [a : {TRUE}, s : {FALSE}, n : {FALSE}, b : EnumDates,
                  e : EnumDates, H : {""}]
    /\ pc = "runQuery"
    /\ eshost = env
    /\ startDate = Parse(args.b)
    /\ endDate = Parse(args.e)
    /\ hostmatch = args.H
    /\ results = <<>>
    /\ qry = buildAuditSearch(startDate, endDate, hostmatch)
    /\ doctype = "auditd"
    /\ indices = <<>> /\ ix = 0 /\ conns = {} /\ qfrom = 0
    /\ ierr = NoErr /\ err = NoErr /\ requests = <<>>
    /\ stdout = <<>> /\ stderr = <<>> /\ exitCode = -1
    /\ raw = NoEvent /\ once = NoEvent /\ ev = NoEvent /\ line = <<>>

NextEnum == enumerateIndices

SpecEnum == InitEnum /\ [][NextEnum]_vars

\* ------------------------------------- one document, normalized and printed
InitEvent ==
    /\ env = "es1:9200"
    /\ args = [a |-> TRUE, s |-> FALSE, n |-> FALSE, b |-> <<>>, e |-> <<>>,
               H |-> ""]
    /\ pc = "decoded"
    /\ Idle
    /\ raw \in EventInputs
    /\ once = NoEvent /\ ev = raw /\ line = <<>>

runVars ==
    <<env, args, cfgVars, qry, doctype, queryVars, stdout, stderr, exitCode>>

\* err = nev.normalize()
normalizeEvent ==
    /\ pc = "decoded"
    /\ ev' = normalize(ev)
    /\ once' = ev'
    /\ pc' = "normalized"
    /\ UNCHANGED <<runVars, raw, line>>

\* normalize applied to an event that is normalized
normalizeAgain ==
    /\ pc = "normalized"
    /\ ev' = normalize(ev)
    /\ pc' = "renormalized"
    /\ UNCHANGED <<runVars, raw, once, line>>

\* the line auditResults prints for the event
printAudit ==
    /\ pc = "normalized"
    /\ line' = auditLine(ev)
    /\ pc' = "audit"
    /\ UNCHANGED <<runVars, raw, once, ev>>

\* the line syslogResults prints for the event
printSyslog ==
    /\ pc = "normalized"
    /\ line' = syslogLine(ev)
    /\ pc' = "syslog"
    /\ UNCHANGED <<runVars, raw, once, ev>>

NextEvent == normalizeEvent \/ normalizeAgain \/ printAudit \/ printSyslog

SpecEvent == InitEvent /\ [][NextEvent]_vars

\* ============================================================== properties
Enumerated == pc \in {"loop", "search", "return", "returned"}

IndexSet == {indices[i] : i \in 1..Len(indices)}

DaysTouched ==
    {IndexName(d * HoursPerDay) : d \in DayOf(startDate)..DayOf(endDate)}

\* C1: for start <= end the enumeration of runQuery is the events-YYYYMMDD
\* names of the consecutive calendar days from start's day to end's day: not
\* empty, ascending in date, without duplicate, first element start's day,
\* last element end's day, and a single element when both fall on one day.
C1_IndexEnumeration ==
    (Enumerated /\ startDate <= endDate) =>
        /\ indices # <<>>
        /\ \A i \in 1..(Len(indices) - 1) : indices[i][2] < indices[i + 1][2]
        /\ \A i \in 1..Len(indices) : indices[i][1] = "events-"
        /\ indices[1] = <<"events-", args.b[1] * 10000 + args.b[2] * 100
                                        + args.b[3]>>
        /\ indices[Len(indices)] = <<"events-", args.e[1] * 10000
                                        + args.e[2] * 100 + args.e[3]>>
        /\ IndexSet = DaysTouched
        /\ Len(indices) = DayOf(endDate) - DayOf(startDate) + 1
        /\ (DayOf(startDate) = DayOf(endDate) => Len(indices) = 1)

\* three days touched by a range shorter than 48 hours, across the new year
C1_Witness ==
    /\ Enumerated /\ startDate <= endDate
    /\ endDate - startDate < 2 * HoursPerDay
    /\ Len(indices) = 3
    /\ indices[3] = <<"events-", 20160101>>

\* start and end on the same day
C1_WitnessSameDay ==
    /\ Enumerated /\ startDate < endDate
    /\ DayOf(startDate) = DayOf(endDate)
    /\ Len(indices) = 1

RequestsOf(idx) == SelectSeq(requests, LAMBDA r : r.index = idx)

RECURSIVE SumHits(_)
SumHits(rs) == IF rs = <<>> THEN 0 ELSE Head(rs).hits + SumHits(Tail(rs))

HitsOf(idx) == [k \in 1..Len(RequestsOf(idx)) |-> RequestsOf(idx)[k].hits]

\* the fetch of the i-th index has ended without error
Finished(i) == i < ix \/ (i = ix /\ pc \in {"return", "returned"} /\ ierr = NoErr)

\* C2: the requests against one index carry the offsets 0, 100, 200, ...,
\* starting at 0 for each index; only an empty page ends the fetch of an
\* index, so k non-empty pages make k+1 requests; and the results hold as
\* many events as the pages had hits.
C2_Pagination ==
    /\ \A idx \in IndexSet :
          LET rs == RequestsOf(idx)
          IN  /\ \A k \in 1..Len(rs) : rs[k].from = (k - 1) * 100
              /\ \A k \in 1..Len(rs) : rs[k].size = 100
              /\ \A k \in 1..(Len(rs) - 1) : rs[k].hits > 0
    /\ \A i \in 1..Len(indices) :
          Finished(i) =>
              LET rs == RequestsOf(indices[i])
              IN  /\ rs # <<>>
                  /\ rs[Len(rs)].hits = 0
                  /\ Len(rs) = Cardinality({k \in 1..Len(rs) : rs[k].hits > 0}) + 1
    /\ (\A k \in 1..Len(requests) : requests[k].failed = NoErr)
          => Len(results) = SumHits(requests)

\* pages [100,100,37,0] on the second index, after a page on the first
C2_Witness ==
    /\ Len(indices) >= 2
    /\ Finished(2)
    /\ HitsOf(indices[1]) = <<100, 0>>
    /\ HitsOf(indices[2]) = <<100, 37, 0>>
    /\ Len(results) = 237

Pos(idx) == CHOOSE i \in 1..Len(indices) : indices[i] = idx

\* C3: the indices are fetched one at a time in enumeration order; after a
\* request or a decode has failed no further request is issued, and runQuery
\* returns that error to main.
C3_AbortOnError ==
    /\ \A k \in 1..Len(requests) : requests[k].index \in IndexSet
    /\ requests # <<>> => Pos(requests[1].index) = 1
    /\ \A k \in 1..(Len(requests) - 1) :
          /\ requests[k].failed = NoErr
          /\ \/ Pos(requests[k + 1].index) = Pos(requests[k].index)
             \/ /\ Pos(requests[k + 1].index) = Pos(requests[k].index) + 1
                /\ requests[k].hits = 0
    /\ (requests # <<>> /\ pc \in {"returned", "exit"}) =>
          err = requests[Len(requests)].failed

\* an error on the second of three indices
C3_Witness ==
    /\ Len(indices) = 3
    /\ pc = "returned"
    /\ Pos(requests[Len(requests)].index) = 2
    /\ err # NoErr
    /\ err = requests[Len(requests)].failed

SomeFailed == \E k \in 1..Len(requests) : requests[k].failed # NoErr

Drained(i) ==
    \E k \in 1..Len(requests) :
        /\ requests[k].index = indices[i]
        /\ requests[k].hits = 0
        /\ requests[k].failed = NoErr

\* C4: after a backend or decode error nothing is printed and the process
\* exits with status 1; the results are printed only when every enumerated
\* index was paginated to its empty page without error.
C4_NoPartialOutput ==
    /\ SomeFailed => stdout = <<>>
    /\ (SomeFailed /\ pc = "exit") => exitCode = 1
    /\ (pc = "exit" /\ exitCode = 0 /\ ~args.n) =>
          /\ ~SomeFailed
          /\ \A i \in 1..Len(indices) : Drained(i)
          /\ Len(stdout) = Len(results)

\* a decode error after events were accumulated
C4_Witness ==
    /\ pc = "exit"
    /\ exitCode = 1
    /\ Len(results) > docsPerSearch
    /\ requests[Len(requests)].failed = DecodeErr
    /\ stdout = <<>>

\* C5: the connection of an index is closed on every way out of its fetch,
\* before the next connection is opened and before runQuery sees the error;
\* two connections are never open at once.
C5_ConnectionClosed ==
    /\ Cardinality(conns) <= 1
    /\ pc \in {"search", "return"} => conns = {ix}
    /\ pc \notin {"search", "return"} => conns = {}

\* the error of the second index has reached runQuery, nothing is open
C5_Witness ==
    /\ pc = "returned"
    /\ err # NoErr
    /\ ix = 2
    /\ conns = {}

Segment(label, field) ==
    IF field # "" THEN << <<label, <<"\"", field, "\"">> >> >> ELSE <<>>

\* C7: an execve event prints "[execve] (<originaluser or none>/<user>)"
\* followed by command:, proc: and path: segments, each present exactly when
\* its own field (command, processname, path) is not empty; another category
\* prints "unknown audit event".
C7_AuditLine ==
    pc = "audit" =>
        line.evstr =
            IF ev.Category = "execve"
            THEN <<"[execve]",
                   <<" (", IF ev.Details.OriginalUser = "" THEN "none"
                           ELSE ev.Details.OriginalUser,
                     "/", ev.Details.User, ")">> >>
                 \o Segment(" command:", ev.Details.Command)
                 \o Segment(" proc:", ev.Details.ProcessName)
                 \o Segment(" path:", ev.Details.Path)
            ELSE <<"unknown audit event">>

\* C8: normalize applied to a normalized event changes nothing.
C8_NormalizeIdempotent ==
    pc = "renormalized" => ev = once

\* a document that the first normalize changed in a fallback, in the
\* category and in the summary
C8_Witness ==
    /\ pc = "renormalized"
    /\ raw.Hostname # once.Hostname
    /\ raw.Category # once.Category
    /\ raw.Summary # once.Summary
    /\ ev = once

Built == qry # NoQuery

\* C9: the query of buildAuditSearch / buildSyslogSearch has no should-clause
\* when the hostname pattern is empty, and otherwise exactly the three
\* clauses hostname, details.dhost, details.hostname, each "field: /pattern/",
\* with minimum_should_match 1.
C9_ShouldClauses ==
    Built =>
        IF hostmatch = "" THEN qry.Should = <<>>
        ELSE /\ Len(qry.Should) = 3
             /\ qry.Should[1] =
                    [QueryString |-> <<"hostname", ": /", hostmatch, "/">>]
             /\ qry.Should[2] =
                    [QueryString |-> <<"details.dhost", ": /", hostmatch, "/">>]
             /\ qry.Should[3] =
                    [QueryString |-> <<"details.hostname", ": /", hostmatch, "/">>]
             /\ qry.MinShouldMatch = 1

\* a syslog query with a hostname pattern
C9_Witness ==
    /\ Built
    /\ ~args.a
    /\ hostmatch = "web.*"
    /\ Len(qry.Should) = 3

\* C10: the criteria that reach the query builder and the index enumeration
\* have start <= end.
C10_StartBeforeEnd ==
    (Built \/ Enumerated) => startDate <= endDate

====
